---------------------------- MODULE Spec2Model ----------------------------
(***************************************************************************)
(* Model of the live transcription relay: the SSE hub of server.js         *)
(* (registry sseClients, broadcast, the /events handler with its           *)
(* keepalive interval and close handler, startStreaming) and the browser   *)
(* page's EventSource handlers that turn partial/final events into DOM     *)
(* elements.                                                               *)
(*                                                                         *)
(* Node runs every handler to completion on one thread, so each handler    *)
(* is one action.  ServerResponse.write of a string on a response that is  *)
(* never ended does not throw: on a channel whose peer is gone the frame   *)
(* is discarded, and the server learns of it only through req 'close'.     *)
(***************************************************************************)
EXTENDS Integers, Sequences, FiniteSets

\* ------------------------------------------------------------- bounds
MaxConns == 2
MaxBroadcasts == 2
MaxTicks == 1
MaxMsgs == 3
\* handler runs in a behaviour
MaxSteps == 11

Conns == 1..MaxConns
\* message texts the page is given; the hub never reads the text it relays,
\* so the transcription service's events carry texts of Utterances
Texts == {"a", "b"}
Utterances == {"a"}

VARIABLES
  apiKey,       \* process.env.ASSEMBLYAI_API_KEY is set
  pipeline,     \* position of startStreaming
  wsOpen,       \* realtime.connect() has resolved
  sseClients,   \* server.js registry: sequence of response objects
  timers,       \* connections whose keepAlive interval is scheduled
  connState,    \* per connection: "free", "open", "broken", "closed"
  written,      \* per connection: every frame handed to res.write
  delivered,    \* per connection: frames written while the peer was there
  nextConn,     \* next connection (response object) to be created
  esConn,       \* connection of the page's EventSource, 0 when none
  esState,      \* EventSource.readyState: "connecting" or "open"
  rdpos,        \* frames of delivered[esConn] the page has consumed
  statusText,   \* statusEl.textContent
  partialEl,    \* the page's partialEl: element id, 0 for null
  transcripts,  \* children of transcriptsEl
  nextEl,       \* elements created so far by document.createElement
  uncaught,     \* exceptions that left evtSource.onmessage
  \* history, read by the properties only
  bcLog,        \* the broadcast calls made so far
  regAt,        \* Len(bcLog) when the connection was pushed
  unregAt,      \* Len(bcLog) when its close handler ran, -1 before
  clearCount,   \* clearInterval calls made for the connection's timer
  msgLog,       \* event.data of every message event handled
  nTicks,       \* keepalive firings so far
  steps,        \* handler runs so far
  nForeign      \* message events dispatched from outside the hub so far

vars == <<apiKey, pipeline, wsOpen, sseClients, timers, connState, written, delivered,
          nextConn, esConn, esState, rdpos, statusText, partialEl,
          transcripts, nextEl, uncaught, bcLog, regAt, unregAt, clearCount,
          msgLog, nTicks, nForeign, steps>>

serverVars == <<sseClients, timers, connState, written, delivered, nextConn,
                regAt, unregAt, clearCount>>
pageVars == <<esConn, esState, rdpos, statusText>>
domVars == <<partialEl, transcripts, nextEl, uncaught, msgLog>>

\* ------------------------------------------------------- wire format
NoJson == [form |-> "none", members |-> <<>>]

\* JSON.stringify of { type, text }: the members in insertion order.
JSONstringify(data) ==
  [form |-> "object",
   members |-> << <<"type", data.type>>, <<"text", data.text>> >>]

\* `data: ${json}\n\n`
DataFrame(json) == [kind |-> "data", data |-> json, note |-> ""]

\* the keepalive written as a data field: 'data: keep-alive\n\n'
KeepAliveAsData ==
  [kind |-> "data", data |-> [form |-> "invalid", members |-> <<>>], note |-> ""]

\* ': connected\n\n' and ': keep-alive\n\n'
ConnectedFrame == [kind |-> "comment", data |-> NoJson, note |-> "connected"]
KeepAliveFrame == [kind |-> "comment", data |-> NoJson, note |-> "keep-alive"]

RECURSIVE SeqToSet(_)
SeqToSet(s) == IF s = <<>> THEN {} ELSE {Head(s)} \cup SeqToSet(Tail(s))

Last(s) == s[Len(s)]

\* every action is one handler run, counted up to MaxSteps
Step == steps < MaxSteps /\ steps' = steps + 1

\* ---------------------------------------------------------------- hub
\* res.write that drops a frame equal to the one written just before
ResWriteSkipRepeat(st, res, frame, bc) ==
  IF st.written[res] # <<>> /\ st.written[res][Len(st.written[res])].frame = frame
  THEN st
  ELSE [written |-> [st.written EXCEPT ![res] = Append(@, [frame |-> frame, bc |-> bc])],
        delivered |-> IF connState[res] = "open"
                      THEN [st.delivered EXCEPT ![res] = Append(@, [frame |-> frame, bc |-> bc])]
                      ELSE st.delivered]

\* res.write(frame): logged always, delivered only while the peer is there.
ResWrite(st, res, frame, bc) ==
  [written |-> [st.written EXCEPT ![res] = Append(@, [frame |-> frame, bc |-> bc])],
   delivered |-> IF connState[res] = "open"
                 THEN [st.delivered EXCEPT ![res] = Append(@, [frame |-> frame, bc |-> bc])]
                 ELSE st.delivered]

\* forEach written as a loop that stops one short of the end
RECURSIVE ForEachWriteButLast(_, _, _, _)
ForEachWriteButLast(clients, st, formatted, bc) ==
  IF Len(clients) <= 1 THEN st
  ELSE ForEachWriteButLast(Tail(clients), ResWrite(st, Head(clients), formatted, bc),
                           formatted, bc)

\* forEach abandoned at the first response whose peer is gone
RECURSIVE ForEachWriteUntilBroken(_, _, _, _)
ForEachWriteUntilBroken(clients, st, formatted, bc) ==
  IF clients = <<>> \/ connState[Head(clients)] # "open" THEN st
  ELSE ForEachWriteUntilBroken(Tail(clients),
                               ResWrite(st, Head(clients), formatted, bc),
                               formatted, bc)

\* forEach that waits for 'drain' on a response whose peer has frames unread
RECURSIVE ForEachWriteWaitsDrain(_, _, _, _)
ForEachWriteWaitsDrain(clients, st, formatted, bc) ==
  IF clients = <<>> THEN st
  ELSE IF Head(clients) = esConn /\ rdpos < Len(st.delivered[esConn]) THEN st
  ELSE ForEachWriteWaitsDrain(Tail(clients),
                              ResWrite(st, Head(clients), formatted, bc),
                              formatted, bc)

\* sseClients.forEach((res) => res.write(formatted))
RECURSIVE ForEachWrite(_, _, _, _)
ForEachWrite(clients, st, formatted, bc) ==
  IF clients = <<>> THEN st
  ELSE ForEachWrite(Tail(clients), ResWrite(st, Head(clients), formatted, bc),
                    formatted, bc)

\* broadcast(data)
Broadcast(data) ==
  LET formatted == DataFrame(JSONstringify(data))
      bc == Len(bcLog) + 1
      st == ForEachWrite(sseClients, [written |-> written, delivered |-> delivered],
                         formatted, bc)
  IN /\ written' = st.written
     /\ delivered' = st.delivered
     /\ bcLog' = Append(bcLog, [data |-> data, frame |-> formatted,
                                snapshot |-> sseClients, stringified |-> 1])
     /\ UNCHANGED <<sseClients, timers, connState, nextConn, regAt, unregAt,
                    clearCount>>

\* the close handler without the filter
FilterKeepsAll(clients, res) == clients

\* sseClients.splice(sseClients.indexOf(res), 1): index -1 removes the last
FilterSplice(clients, res) ==
  IF \E i \in 1..Len(clients) : clients[i] = res
  THEN SelectSeq(clients, LAMBDA client : client # res)
  ELSE SubSeq(clients, 1, Len(clients) - 1)

\* sseClients.filter((client) => client !== res)
FilterOut(clients, res) == SelectSeq(clients, LAMBDA client : client # res)

\* the close handler without clearInterval
ClearIntervalNoop(ts, res) == ts

\* clearInterval(keepAlive)
ClearInterval(ts, res) == ts \ {res}

\* the handler without res.write(': connected\n\n')
GetEventsNoMarker(res) ==
  /\ res = nextConn
  /\ res <= MaxConns
  /\ nextConn' = nextConn + 1
  /\ connState' = [connState EXCEPT ![res] = "open"]
  /\ written' = [written EXCEPT ![res] = <<>>]
  /\ delivered' = [delivered EXCEPT ![res] = <<>>]
  /\ timers' = timers \cup {res}
  /\ sseClients' = Append(sseClients, res)
  /\ regAt' = [regAt EXCEPT ![res] = Len(bcLog)]
  /\ UNCHANGED <<unregAt, clearCount>>

\* the handler without sseClients.push(res)
GetEventsNoPush(res) ==
  /\ res = nextConn
  /\ res <= MaxConns
  /\ nextConn' = nextConn + 1
  /\ connState' = [connState EXCEPT ![res] = "open"]
  /\ written' = [written EXCEPT ![res] = <<[frame |-> ConnectedFrame, bc |-> 0]>>]
  /\ delivered' = [delivered EXCEPT ![res] = <<[frame |-> ConnectedFrame, bc |-> 0]>>]
  /\ timers' = timers \cup {res}
  /\ sseClients' = sseClients
  /\ regAt' = [regAt EXCEPT ![res] = Len(bcLog)]
  /\ UNCHANGED <<unregAt, clearCount>>

\* app.get('/events', ...): the handler for a new request
GetEvents(res) ==
  /\ res = nextConn
  /\ res <= MaxConns
  /\ nextConn' = nextConn + 1
  /\ connState' = [connState EXCEPT ![res] = "open"]
  /\ written' = [written EXCEPT ![res] = <<[frame |-> ConnectedFrame, bc |-> 0]>>]
  /\ delivered' = [delivered EXCEPT ![res] = <<[frame |-> ConnectedFrame, bc |-> 0]>>]
  /\ timers' = timers \cup {res}
  /\ sseClients' = Append(sseClients, res)
  /\ regAt' = [regAt EXCEPT ![res] = Len(bcLog)]
  /\ UNCHANGED <<unregAt, clearCount>>

\* the interval callback: res.write(': keep-alive\n\n')
KeepAliveTick(res) ==
  /\ Step
  /\ res \in timers
  /\ nTicks < MaxTicks
  /\ nTicks' = nTicks + 1
  /\ LET st == ResWrite([written |-> written, delivered |-> delivered], res,
                        KeepAliveFrame, 0)
     IN written' = st.written /\ delivered' = st.delivered
  /\ UNCHANGED <<sseClients, timers, connState, nextConn, regAt, unregAt,
                 clearCount, apiKey, pipeline, wsOpen, bcLog, nForeign>>
  /\ UNCHANGED <<pageVars, domVars>>

\* req.on('close', ...)
ReqClose(res) ==
  /\ Step
  /\ connState[res] = "broken"
  /\ connState' = [connState EXCEPT ![res] = "closed"]
  /\ timers' = ClearInterval(timers, res)
  /\ clearCount' = [clearCount EXCEPT ![res] = @ + 1]
  /\ sseClients' = FilterOut(sseClients, res)
  /\ unregAt' = [unregAt EXCEPT ![res] = Len(bcLog)]
  /\ UNCHANGED <<written, delivered, nextConn, regAt, apiKey, pipeline, wsOpen, bcLog,
                 nTicks, nForeign>>
  /\ UNCHANGED <<pageVars, domVars>>

\* a connection's transport goes down: the peer is gone, 'close' is still to
\* be dispatched on the server; the page's EventSource, if it is its own
\* connection, fires onerror and goes back to connecting
OnError ==
  /\ statusText' = "Connection error. Trying to reconnect"
  /\ esState' = "connecting"
  /\ esConn' = 0
  /\ rdpos' = 0

Disrupt(res) ==
  /\ Step
  /\ connState[res] = "open"
  /\ connState' = [connState EXCEPT ![res] = "broken"]
  /\ IF res = esConn THEN OnError ELSE UNCHANGED pageVars
  /\ UNCHANGED <<sseClients, timers, written, delivered, nextConn, regAt,
                 unregAt, clearCount, apiKey, pipeline, wsOpen, bcLog, nTicks, nForeign>>
  /\ UNCHANGED domVars

\* a client other than the page requests /events
GetEventsOther ==
  /\ Step
  /\ GetEvents(nextConn)
  /\ UNCHANGED <<apiKey, pipeline, wsOpen, bcLog, nTicks, nForeign>>
  /\ UNCHANGED <<pageVars, domVars>>

\* new EventSource('/events'), and every automatic reconnection
GetEventsPage ==
  /\ Step
  /\ esConn = 0
  /\ esState = "connecting"
  /\ GetEvents(nextConn)
  /\ esConn' = nextConn
  /\ rdpos' = 0
  /\ UNCHANGED <<esState, statusText>>
  /\ UNCHANGED <<apiKey, pipeline, wsOpen, bcLog, nTicks, nForeign>>
  /\ UNCHANGED domVars

\* -------------------------------------------------------- startStreaming
\* startStreaming without the check of the key
StartStreamingNoCheck ==
  /\ Step
  /\ pipeline = "listening"
  /\ pipeline' = "connecting"
  /\ UNCHANGED <<apiKey, wsOpen, bcLog, nTicks, nForeign>>
  /\ UNCHANGED <<serverVars, pageVars, domVars>>

\* startStreaming with realtime.connect() not awaited: the microphone is
\* piped in the same run
StartStreamingNoAwait ==
  /\ Step
  /\ pipeline = "listening"
  /\ pipeline' = IF apiKey THEN "forwarding" ELSE "nokey"
  /\ UNCHANGED <<apiKey, wsOpen, bcLog, nTicks, nForeign>>
  /\ UNCHANGED <<serverVars, pageVars, domVars>>

\* app.listen callback: startStreaming() up to its first await
StartStreaming ==
  /\ Step
  /\ pipeline = "listening"
  /\ pipeline' = IF apiKey THEN "connecting" ELSE "nokey"
  /\ UNCHANGED <<apiKey, wsOpen, bcLog, nTicks, nForeign>>
  /\ UNCHANGED <<serverVars, pageVars, domVars>>

\* await realtime.connect() resolves: recorder.record, micStream.pipe
ConnectOk ==
  /\ Step
  /\ pipeline = "connecting"
  /\ pipeline' = "forwarding"
  /\ wsOpen' = TRUE
  /\ UNCHANGED <<apiKey, bcLog, nTicks, nForeign>>
  /\ UNCHANGED <<serverVars, pageVars, domVars>>

\* await realtime.connect() rejects: caught by startStreaming().catch
ConnectFail ==
  /\ Step
  /\ pipeline = "connecting"
  /\ pipeline' = "failed"
  /\ UNCHANGED <<apiKey, wsOpen, bcLog, nTicks, nForeign>>
  /\ UNCHANGED <<serverVars, pageVars, domVars>>

\* realtime.on('transcript.partial', ...)
TranscriptPartial(text) ==
  /\ Step
  /\ pipeline = "forwarding"
  /\ Len(bcLog) < MaxBroadcasts
  /\ Broadcast([type |-> "partial", text |-> text])
  /\ UNCHANGED <<apiKey, pipeline, wsOpen, nTicks, nForeign>>
  /\ UNCHANGED <<pageVars, domVars>>

\* realtime.on('transcript.final', ...)
TranscriptFinal(text) ==
  /\ Step
  /\ pipeline = "forwarding"
  /\ Len(bcLog) < MaxBroadcasts
  /\ Broadcast([type |-> "final", text |-> text])
  /\ UNCHANGED <<apiKey, pipeline, wsOpen, nTicks, nForeign>>
  /\ UNCHANGED <<pageVars, domVars>>

\* ------------------------------------------------------------- the page
Undefined == "<undefined>"

\* value of the last member named key, as JSON.parse keeps it
RECURSIVE LookUp(_, _)
LookUp(members, key) ==
  IF members = <<>> THEN Undefined
  ELSE IF Last(members)[1] = key THEN Last(members)[2]
  ELSE LookUp(SubSeq(members, 1, Len(members) - 1), key)

\* JSON.parse(event.data): SyntaxError, null, or an object
JSONparse(text) ==
  [ok |-> text.form \in {"object", "null"},
   isNull |-> text.form = "null",
   members |-> IF text.form = "object" THEN text.members ELSE <<>>]

\* data.type / data.text on the parsed value (TypeError on null is handled
\* by the caller)
Prop(parsed, key) == LookUp(parsed.members, key)

\* el.textContent = v, a nullable DOMString: undefined gives the empty text
TextContent(v) == IF v = Undefined THEN "" ELSE v

SetText(children, id, text) ==
  [i \in 1..Len(children) |->
     IF children[i].id = id THEN [children[i] EXCEPT !.text = text]
     ELSE children[i]]

\* the final branch resetting partialEl without partialEl.remove()
RemoveElKeeps(children, id) == children

\* transcriptsEl.lastChild.remove() in place of partialEl.remove()
RemoveElLast(children, id) == SubSeq(children, 1, Len(children) - 1)

\* el.remove()
RemoveEl(children, id) == SelectSeq(children, LAMBDA el : el.id # id)

\* the partial branch without the if (!partialEl) test: a new element each time
PartialBranchAlwaysCreates(data, pEl, children, nEl) ==
  [partialEl |-> nEl + 1,
   transcripts |-> Append(children, [id |-> nEl + 1, className |-> "partial",
                                     text |-> TextContent(Prop(data, "text"))]),
   nextEl |-> nEl + 1,
   threw |-> FALSE]

\* the if (data.type === 'partial') branch
PartialBranch(data, pEl, children, nEl) ==
  LET created == pEl = 0
      el == IF created THEN nEl + 1 ELSE pEl
      appended == IF created
                  THEN Append(children, [id |-> el, className |-> "partial", text |-> ""])
                  ELSE children
  IN [partialEl |-> el,
      transcripts |-> SetText(appended, el, TextContent(Prop(data, "text"))),
      nextEl |-> IF created THEN nEl + 1 ELSE nEl,
      threw |-> FALSE]

\* the final branch without partialEl.remove() and the reset
FinalBranchKeepsPartial(data, pEl, children, nEl) ==
  [partialEl |-> pEl,
   transcripts |-> Append(children, [id |-> nEl + 1, className |-> "final",
                                     text |-> TextContent(Prop(data, "text"))]),
   nextEl |-> nEl + 1,
   threw |-> FALSE]

\* the else if (data.type === 'final') branch
FinalBranch(data, pEl, children, nEl) ==
  LET finalEl == [id |-> nEl + 1, className |-> "final",
                  text |-> TextContent(Prop(data, "text"))]
      appended == Append(children, finalEl)
  IN [partialEl |-> 0,
      transcripts |-> IF pEl # 0 THEN RemoveEl(appended, pEl) ELSE appended,
      nextEl |-> nEl + 1,
      threw |-> FALSE]

\* a catch block that rethrows
CaughtRethrows(pEl, children, nEl) ==
  [partialEl |-> pEl, transcripts |-> children, nextEl |-> nEl, threw |-> TRUE]

\* the catch block: console.error, nothing else
Caught(pEl, children, nEl) ==
  [partialEl |-> pEl, transcripts |-> children, nextEl |-> nEl, threw |-> FALSE]

\* evtSource.onmessage
OnMessage(eventData, pEl, children, nEl) ==
  LET data == JSONparse(eventData)
  IN IF ~data.ok THEN Caught(pEl, children, nEl)
     ELSE IF data.isNull THEN Caught(pEl, children, nEl)
     ELSE IF Prop(data, "type") = "partial" THEN PartialBranch(data, pEl, children, nEl)
     ELSE IF Prop(data, "type") = "final" THEN FinalBranch(data, pEl, children, nEl)
     ELSE [partialEl |-> pEl, transcripts |-> children, nextEl |-> nEl, threw |-> FALSE]

Dispatch(eventData) ==
  LET r == OnMessage(eventData, partialEl, transcripts, nextEl)
  IN /\ partialEl' = r.partialEl
     /\ transcripts' = r.transcripts
     /\ nextEl' = r.nextEl
     /\ uncaught' = IF r.threw THEN uncaught + 1 ELSE uncaught
     /\ msgLog' = Append(msgLog, eventData)

\* evtSource.onopen
EsOpen ==
  /\ Step
  /\ esConn # 0
  /\ esState = "connecting"
  /\ esState' = "open"
  /\ statusText' = "Listening"
  /\ UNCHANGED <<esConn, rdpos>>
  /\ UNCHANGED <<apiKey, pipeline, wsOpen, bcLog, nTicks, nForeign>>
  /\ UNCHANGED <<serverVars, domVars>>

\* the EventSource reads the next frame of its stream: a comment line is
\* ignored, a data field is dispatched to onmessage
EsReceive ==
  /\ Step
  /\ esConn # 0
  /\ esState = "open"
  /\ rdpos < Len(delivered[esConn])
  /\ rdpos' = rdpos + 1
  /\ LET f == delivered[esConn][rdpos + 1].frame
     IN IF f.kind = "data" THEN Dispatch(f.data) ELSE UNCHANGED domVars
  /\ UNCHANGED <<esConn, esState, statusText>>
  /\ UNCHANGED <<apiKey, pipeline, wsOpen, bcLog, nTicks, nForeign>>
  /\ UNCHANGED serverVars

\* event.data that is no { type: 'partial' | 'final', text } object
Malformed ==
  {[form |-> "invalid", members |-> <<>>],
   [form |-> "null", members |-> <<>>],
   [form |-> "object", members |-> << <<"text", "a">> >>],
   [form |-> "object", members |-> << <<"type", "interim">>, <<"text", "a">> >>]}

\* event.data as broadcast produces it
WellFormed ==
  {JSONstringify([type |-> ty, text |-> t]) : ty \in {"partial", "final"}, t \in Texts}

Payloads == WellFormed \cup Malformed

\* a message event dispatched to evtSource.onmessage, whatever produced its
\* data
EsMessage(eventData) ==
  /\ Step
  /\ esState = "open"
  /\ nForeign < MaxMsgs
  /\ nForeign' = nForeign + 1
  /\ Dispatch(eventData)
  /\ UNCHANGED pageVars
  /\ UNCHANGED <<apiKey, pipeline, wsOpen, bcLog, nTicks>>
  /\ UNCHANGED serverVars

\* ------------------------------------------------------- specification
Init ==
  /\ apiKey \in BOOLEAN
  /\ pipeline = "listening"
  /\ wsOpen = FALSE
  /\ sseClients = <<>>
  /\ timers = {}
  /\ connState = [c \in Conns |-> "free"]
  /\ written = [c \in Conns |-> <<>>]
  /\ delivered = [c \in Conns |-> <<>>]
  /\ nextConn = 1
  /\ esConn = 0
  /\ esState = "connecting"
  /\ rdpos = 0
  /\ statusText = ""
  /\ partialEl = 0
  /\ transcripts = <<>>
  /\ nextEl = 0
  /\ uncaught = 0
  /\ bcLog = <<>>
  /\ regAt = [c \in Conns |-> 0]
  /\ unregAt = [c \in Conns |-> -1]
  /\ clearCount = [c \in Conns |-> 0]
  /\ msgLog = <<>>
  /\ nTicks = 0
  /\ nForeign = 0
  /\ steps = 0

\* the hub alone, serving clients whose pages are not modelled
NextHub ==
  \/ StartStreaming
  \/ ConnectOk
  \/ ConnectFail
  \/ \E text \in Utterances : TranscriptPartial(text)
  \/ \E text \in Utterances : TranscriptFinal(text)
  \/ GetEventsOther
  \/ \E res \in Conns : KeepAliveTick(res)
  \/ \E res \in Conns : Disrupt(res)
  \/ \E res \in Conns : ReqClose(res)

SpecHub == Init /\ [][NextHub]_vars

\* the page alone: its EventSource connects and reconnects, and is handed
\* any message
NextPage ==
  \/ GetEventsPage
  \/ EsOpen
  \/ \E res \in Conns : Disrupt(res)
  \/ \E res \in Conns : ReqClose(res)
  \/ \E eventData \in Payloads : EsMessage(eventData)

SpecPage == Init /\ [][NextPage]_vars

\* the hub, the page and other clients together
Next ==
  \/ StartStreaming
  \/ ConnectOk
  \/ ConnectFail
  \/ \E text \in Utterances : TranscriptPartial(text)
  \/ \E text \in Utterances : TranscriptFinal(text)
  \/ GetEventsOther
  \/ GetEventsPage
  \/ \E res \in Conns : KeepAliveTick(res)
  \/ \E res \in Conns : Disrupt(res)
  \/ \E res \in Conns : ReqClose(res)
  \/ EsOpen
  \/ EsReceive

Spec == Init /\ [][Next]_vars

\* ----------------------------------------------------------- properties
IsPartialMsg(d) == d \in WellFormed /\ LookUp(d.members, "type") = "partial"
IsFinalMsg(d) == d \in WellFormed /\ LookUp(d.members, "type") = "final"

PartialsThenFinal(log) ==
  /\ Len(log) >= 1
  /\ \A i \in 1..(Len(log) - 1) : IsPartialMsg(log[i])
  /\ IsFinalMsg(Last(log))

ElementsOfClass(children, cls) == SelectSeq(children, LAMBDA el : el.className = cls)

\* positions of written[c] that broadcast number i wrote
BcEntries(c, i) == {k \in 1..Len(written[c]) : written[c][k].bc = i}

Registry == SeqToSet(sseClients)

\* a step that is one call of broadcast
BroadcastStep == Len(bcLog') = Len(bcLog) + 1

\* C1: when the messages handled since page load are zero or more partials
\* followed by one final of text F, partialEl is null and the display holds
\* exactly one element, of class final and text F.
C1_PartialsThenFinalEndsIdle ==
  PartialsThenFinal(msgLog) =>
    /\ partialEl = 0
    /\ Len(transcripts) = 1
    /\ transcripts[1].className = "final"
    /\ transcripts[1].text = LookUp(Last(msgLog).members, "text")
    /\ ElementsOfClass(transcripts, "partial") = <<>>

C1_Witness ==
  /\ PartialsThenFinal(msgLog)
  /\ Len(msgLog) = 3
  /\ LookUp(msgLog[1].members, "text") # LookUp(msgLog[3].members, "text")
  /\ Len(transcripts) = 1

\* C2: a call of broadcast serializes its event once and hands that one
\* frame to res.write exactly once for every response in the registry, and to
\* no other; it leaves the registry, the timers and the connections as they
\* were, so with an empty registry it writes nothing and changes nothing.
C2_BroadcastWritesSameFrameToAll ==
  [][BroadcastStep =>
       LET call == Last(bcLog')
           entry == [frame |-> DataFrame(JSONstringify(call.data)),
                     bc |-> Len(bcLog')]
       IN /\ call.stringified = 1
          /\ call.frame = entry.frame
          /\ \A c \in Conns :
               written'[c] = IF c \in Registry THEN Append(written[c], entry)
                             ELSE written[c]
          /\ UNCHANGED <<sseClients, timers, connState>>]_vars

C2_Witness ==
  /\ Len(bcLog) = 2
  /\ bcLog[1].snapshot = <<>>
  /\ \A c \in Conns : BcEntries(c, 1) = {}
  /\ Len(bcLog[2].snapshot) = 2
  /\ \A c \in Conns : Last(written[c]) = [frame |-> bcLog[2].frame, bc |-> 2]

\* a broadcast write to c failed: it was made after c's peer had gone
FailedBroadcastWrite(c, i) ==
  \E k \in BcEntries(c, i) : k > Len(delivered[c])

\* C3: once broadcast number i has returned with its write to c failed,
\* every other response registered at its start has the event and c is no
\* longer in the registry.
C3_FailedWriteUnregisters ==
  \A c \in Conns : \A i \in 1..Len(bcLog) :
    FailedBroadcastWrite(c, i) =>
      /\ \A d \in SeqToSet(bcLog[i].snapshot) \ {c} : BcEntries(d, i) # {}
      /\ c \notin Registry

\* C4: after a connection's close handler has run, nothing is written to
\* it any more, by broadcast or by its keepalive interval.
C4_NoWriteAfterClose ==
  [][\A c \in Conns : connState[c] = "closed" => written'[c] = written[c]]_vars

C4_Witness ==
  \E a, b \in Conns :
    /\ connState[a] = "closed"
    /\ Len(bcLog) > unregAt[a]
    /\ regAt[a] < unregAt[a]
    /\ bcLog[Len(bcLog)].snapshot = <<b>>
    /\ BcEntries(b, Len(bcLog)) # {}
    /\ BcEntries(a, Len(bcLog)) = {}
    /\ nTicks = 1

\* C5: broadcast number i is written once to each response that was in the
\* registry when it was called and never to any other, whatever has become
\* of those responses' peers and whoever registers afterwards.
C5_DeliversToSnapshot ==
  \A i \in 1..Len(bcLog) : \A c \in Conns :
    Cardinality(BcEntries(c, i)) =
      IF c \in SeqToSet(bcLog[i].snapshot) THEN 1 ELSE 0

C5_Witness ==
  \E a, b \in Conns :
    /\ Len(bcLog) >= 1
    /\ bcLog[1].snapshot = <<a>>
    /\ FailedBroadcastWrite(a, 1)
    /\ regAt[b] >= 1
    /\ connState[b] = "open"
    /\ BcEntries(b, 1) = {}

\* the broadcast numbers of the data frames written to c, in the order written
DataEntries(c) == SelectSeq(written[c], LAMBDA e : e.frame.kind = "data")

\* broadcasts regAt[c] + 1 .. the last one made while c was in the registry
RegisteredUntil(c) == IF unregAt[c] >= 0 THEN unregAt[c] ELSE Len(bcLog)

\* C6: the data frames written to a connection are, in order and once
\* each, the frames of the broadcasts made from its registration to its
\* removal (or to now); two connections registered over the same broadcasts
\* are therefore written the same sequence.
C6_WrittenInBroadcastOrder ==
  /\ \A c \in Conns :
       LET d == DataEntries(c)
       IN /\ Len(d) = IF connState[c] = "free" THEN 0
                      ELSE RegisteredUntil(c) - regAt[c]
          /\ \A k \in 1..Len(d) :
               /\ d[k].bc = regAt[c] + k
               /\ d[k].frame = bcLog[regAt[c] + k].frame
  /\ \A c, e \in Conns :
       (regAt[c] = regAt[e] /\ RegisteredUntil(c) = RegisteredUntil(e)
          /\ connState[c] # "free" /\ connState[e] # "free")
         => DataEntries(c) = DataEntries(e)

C6_Witness ==
  \E c, e \in Conns :
    /\ c # e
    /\ regAt[c] = 0 /\ regAt[e] = 0
    /\ Len(DataEntries(c)) = 2
    /\ DataEntries(c) = DataEntries(e)
    /\ DataEntries(c)[1].frame # DataEntries(c)[2].frame

\* the page's state after handling the messages of log from page load
RECURSIVE Replay(_)
Replay(log) ==
  IF log = <<>> THEN [partialEl |-> 0, transcripts |-> <<>>, nextEl |-> 0, threw |-> FALSE]
  ELSE LET before == Replay(SubSeq(log, 1, Len(log) - 1))
       IN OnMessage(Last(log), before.partialEl, before.transcripts, before.nextEl)

\* C7: no message makes the handler throw, and the page is in the state it
\* would be in had the malformed messages never arrived: each of them left
\* partialEl and the display as they were, and the well-formed messages
\* after it were handled as usual.
C7_MalformedIgnored ==
  /\ uncaught = 0
  /\ LET r == Replay(SelectSeq(msgLog, LAMBDA d : d \notin Malformed))
     IN partialEl = r.partialEl /\ transcripts = r.transcripts

C7_Witness ==
  /\ Len(msgLog) = 3
  /\ IsPartialMsg(msgLog[1])
  /\ msgLog[2] \in Malformed
  /\ IsFinalMsg(msgLog[3])
  /\ partialEl = 0
  /\ Len(transcripts) = 1

\* the page's EventSource is on a connection made after an earlier one was
\* lost, and no message of the new connection has been handled yet
FreshlyReconnected ==
  /\ esConn # 0
  /\ \E c \in Conns : c < esConn /\ connState[c] # "open"
                        /\ statusText # ""
  /\ \A k \in 1..rdpos : delivered[esConn][k].frame.kind # "data"

\* C8: after a reconnection the page is registered under a new connection
\* and its reconciler is back at Idle: partialEl is null and no partial
\* element is displayed.
C8_ReconnectRestartsIdle ==
  FreshlyReconnected =>
    /\ esConn \in Registry
    /\ partialEl = 0
    /\ ElementsOfClass(transcripts, "partial") = <<>>

\* C9: when every connection made so far has had its close handler run, no
\* keepalive interval is scheduled and the registry is empty.
C9_AllClosedLeavesNothing ==
  (\A c \in Conns : connState[c] \in {"free", "closed"}) =>
    timers = {} /\ sseClients = <<>>

C9_Witness ==
  /\ \E c, e \in Conns : c # e /\ connState[c] = "closed" /\ connState[e] = "closed"
  /\ \A c \in Conns : connState[c] \in {"free", "closed"}
  /\ \A c \in Conns : connState[c] = "closed" => Len(written[c]) >= 1
  /\ timers = {}

\* C10: for a connection whose close handler has run, or that never
\* registered, running the removal again changes neither the registry nor the
\* scheduled timers; clearInterval has been called once for each closed
\* connection and never for any other.
C10_RemovalIdempotent ==
  \A c \in Conns :
    /\ connState[c] \in {"free", "closed"} =>
         /\ FilterOut(sseClients, c) = sseClients
         /\ ClearInterval(timers, c) = timers
    /\ clearCount[c] = IF connState[c] = "closed" THEN 1 ELSE 0

C10_Witness ==
  \E c, e \in Conns :
    /\ connState[c] = "closed"
    /\ clearCount[c] = 1
    /\ sseClients = <<e>>
    /\ timers = {e}

\* a step that is one firing of a keepalive interval
TickStep == nTicks' = nTicks + 1

\* a step in which the page's EventSource reads a comment frame
ReadsComment ==
  /\ esConn # 0
  /\ rdpos' = rdpos + 1
  /\ delivered[esConn][rdpos + 1].frame.kind = "comment"

\* C11: a keepalive firing appends one comment frame, no data frame, to the
\* written log of one connection whose timer is scheduled and to no other,
\* whatever broadcasts have been made, and leaves the registry, the timers,
\* partialEl and the display as they were; the page reading a comment frame
\* dispatches no message and leaves partialEl and the display as they were.
C11_KeepAliveOnlyMarksLiveness ==
  [][/\ TickStep =>
          /\ \E c \in timers :
               /\ c \in Registry
               /\ Len(written'[c]) = Len(written[c]) + 1
               /\ SubSeq(written'[c], 1, Len(written[c])) = written[c]
               /\ Last(written'[c]).frame.kind = "comment"
               /\ Last(written'[c]).bc = 0
               /\ \A d \in Conns \ {c} : written'[d] = written[d]
          /\ UNCHANGED <<sseClients, timers, partialEl, transcripts, msgLog>>
     /\ ReadsComment => UNCHANGED <<partialEl, transcripts, msgLog>>]_vars

C11_Witness ==
  /\ esConn # 0
  /\ rdpos = 3
  /\ delivered[esConn][2].frame.kind = "data"
  /\ delivered[esConn][3].frame = KeepAliveFrame
  /\ partialEl # 0
  /\ Len(bcLog) >= 1
  /\ nTicks = 1

\* C12: without the key startStreaming stops at its check: the service is
\* never created or connected, the microphone is never piped and nothing is
\* broadcast, so only comment frames are written; meanwhile every connection
\* made is written the connected marker first, is in the registry with its
\* timer until its close handler has run, and is in neither afterwards.
C12_NoKeyHubStillServes ==
  ~apiKey =>
    /\ pipeline \in {"listening", "nokey"}
    /\ ~wsOpen
    /\ bcLog = <<>>
    /\ \A c \in Conns :
         /\ \A k \in 1..Len(written[c]) : written[c][k].frame.kind = "comment"
         /\ connState[c] \in {"open", "broken"} =>
              /\ c \in Registry /\ c \in timers
              /\ written[c][1].frame = ConnectedFrame
         /\ connState[c] = "closed" => c \notin Registry /\ c \notin timers

C12_Witness ==
  /\ ~apiKey
  /\ pipeline = "nokey"
  /\ \E c, e \in Conns :
       /\ connState[c] = "closed"
       /\ Len(written[c]) = 2
       /\ written[c][2].frame = KeepAliveFrame
       /\ connState[e] = "open"
       /\ sseClients = <<e>>

\* C13: the microphone is piped only once realtime.connect() has resolved;
\* after a rejected connect it is never piped, and the rejection leaves the
\* registry and the timers as they were.
C13_ForwardingOnlyAfterConnect ==
  [][/\ pipeline' = "forwarding" => wsOpen'
     /\ pipeline = "failed" => pipeline' = "failed" /\ ~wsOpen'
     /\ (pipeline = "connecting" /\ pipeline' = "failed") =>
          UNCHANGED <<sseClients, timers, connState, written>>]_vars

C13_Witness ==
  /\ pipeline = "failed"
  /\ ~wsOpen
  /\ Len(sseClients) = 2
  /\ nTicks = 1
  /\ bcLog = <<>>

\* the page has not read everything written to its connection
Stalled(c) == c = esConn /\ rdpos < Len(delivered[c])

\* index of c in the registry, 0 when it is not there
RECURSIVE Position(_, _)
Position(clients, c) ==
  IF clients = <<>> THEN 0
  ELSE IF Head(clients) = c THEN 1
  ELSE LET p == Position(Tail(clients), c) IN IF p = 0 THEN 0 ELSE p + 1

\* C14: every broadcast returns in its own step having reached every
\* response of the registry whose peer is there, whatever the page has left
\* unread on its connection; and a connection whose peer is gone can have
\* its close handler run whatever is still unread.
C14_StalledReaderDelaysNobody ==
  /\ \A i \in 1..Len(bcLog) : \A c \in SeqToSet(bcLog[i].snapshot) :
       connState[c] = "open" =>
         \E k \in 1..Len(delivered[c]) : delivered[c][k].bc = i
  /\ \A c \in Conns :
       (connState[c] = "broken" /\ steps < MaxSteps) => ENABLED ReqClose(c)

C14_Witness ==
  \E c, e \in Conns :
    /\ Stalled(c)
    /\ rdpos = 0
    /\ Len(bcLog) = 2
    /\ connState[e] = "open"
    /\ Position(sseClients, c) = 1
    /\ Position(sseClients, e) = 2
    /\ Len(delivered[c]) = 3
    /\ \E k \in 1..Len(delivered[e]) : delivered[e][k].bc = 2

\* a step in which onmessage handles one message
MessageStep == Len(msgLog') = Len(msgLog) + 1

Ids(children) == {children[k].id : k \in 1..Len(children)}

\* the reconciler state the page implements: Idle, or InProgress with the
\* text of the element partialEl refers to
Reconciler(pEl, children) ==
  IF pEl = 0 THEN [state |-> "Idle", text |-> ""]
  ELSE [state |-> "InProgress",
        text |-> (CHOOSE el \in {children[k] : k \in 1..Len(children)} :
                    el.id = pEl).text]

\* C15: with Idle standing for partialEl = null, each well-formed message
\* takes the page through the transition of the two-state machine: a partial
\* in Idle appends one new partial element with its text; a partial in
\* InProgress changes the text of that element and nothing else; a final
\* removes the partial element, if any, appends one final element with its
\* text and leaves Idle.
C15_RefinesTwoStateMachine ==
  [][MessageStep =>
       LET d == Last(msgLog')
           t == LookUp(d.members, "text")
           before == Reconciler(partialEl, transcripts)
           after == Reconciler(partialEl', transcripts')
       IN /\ (IsPartialMsg(d) /\ before.state = "Idle") =>
               /\ after = [state |-> "InProgress", text |-> t]
               /\ partialEl' \notin Ids(transcripts)
               /\ transcripts' = Append(transcripts,
                                        [id |-> partialEl', className |-> "partial",
                                         text |-> t])
          /\ (IsPartialMsg(d) /\ before.state = "InProgress") =>
               /\ after = [state |-> "InProgress", text |-> t]
               /\ partialEl' = partialEl
               /\ Len(transcripts') = Len(transcripts)
               /\ \A k \in 1..Len(transcripts) :
                    transcripts'[k] = IF transcripts[k].id = partialEl
                                      THEN [transcripts[k] EXCEPT !.text = t]
                                      ELSE transcripts[k]
          /\ IsFinalMsg(d) =>
               /\ after.state = "Idle"
               /\ Len(transcripts') >= 1
               /\ Last(transcripts').className = "final"
               /\ Last(transcripts').text = t
               /\ Last(transcripts').id \notin Ids(transcripts)
               /\ SubSeq(transcripts', 1, Len(transcripts') - 1)
                    = SelectSeq(transcripts, LAMBDA el : el.id # partialEl)
               /\ ElementsOfClass(transcripts', "partial") = <<>>]_vars

C15_Witness ==
  /\ Len(msgLog) = 3
  /\ IsFinalMsg(msgLog[1])
  /\ IsPartialMsg(msgLog[2])
  /\ IsPartialMsg(msgLog[3])
  /\ msgLog[2] # msgLog[3]
  /\ Len(transcripts) = 2
  /\ partialEl = transcripts[2].id
  /\ transcripts[2].text = LookUp(msgLog[3].members, "text")

\* C16: the first frame written to a connection is the connected marker and
\* no other frame of it is one: every data frame and every keepalive comes
\* after it; and every data frame written to a connection belongs to a
\* broadcast called after the connection was pushed to the registry.
C16_ConnectedMarkerFirst ==
  \A c \in Conns :
    /\ connState[c] = "free" <=> written[c] = <<>>
    /\ \A k \in 1..Len(written[c]) :
         /\ (written[c][k].frame = ConnectedFrame) <=> (k = 1)
         /\ written[c][k].frame.kind = "data" =>
              /\ written[c][k].bc > regAt[c]
              /\ c \in SeqToSet(bcLog[written[c][k].bc].snapshot)

C16_Witness ==
  \E c \in Conns :
    /\ regAt[c] = 1
    /\ Len(bcLog) = 2
    /\ Len(written[c]) = 3
    /\ written[c][1].frame = ConnectedFrame
    /\ written[c][2].frame = KeepAliveFrame
    /\ written[c][3].bc = 2

\* C17: between handlers a connection has its keepalive interval scheduled
\* exactly when it is in the registry, and the registry holds no connection
\* twice.
C17_TimerIffRegistered ==
  /\ timers = Registry
  /\ Cardinality(Registry) = Len(sseClients)

C17_Witness ==
  \E c, e \in Conns :
    /\ connState[c] = "closed"
    /\ connState[e] = "broken"
    /\ timers = {e}
    /\ sseClients = <<e>>
    /\ c < e

\* the partial a log leaves pending: the latest partial with no final after it
RECURSIVE Pending(_)
Pending(log) ==
  IF log = <<>> THEN [some |-> FALSE, text |-> ""]
  ELSE IF IsFinalMsg(Last(log)) THEN [some |-> FALSE, text |-> ""]
  ELSE IF IsPartialMsg(Last(log))
       THEN [some |-> TRUE, text |-> LookUp(Last(log).members, "text")]
  ELSE Pending(SubSeq(log, 1, Len(log) - 1))

\* C18: the display holds at most one partial element; it holds one exactly
\* when partialEl is not null, and then partialEl is that element and its
\* text is that of the latest partial handled since the last final.
C18_AtMostOnePartialElement ==
  LET ps == ElementsOfClass(transcripts, "partial")
  IN /\ Len(ps) <= 1
     /\ Len(ps) = 1 <=> partialEl # 0
     /\ partialEl # 0 =>
          /\ ps[1].id = partialEl
          /\ Pending(msgLog).some
          /\ ps[1].text = Pending(msgLog).text

C18_Witness ==
  /\ Len(msgLog) = 3
  /\ IsPartialMsg(msgLog[1])
  /\ IsPartialMsg(msgLog[2])
  /\ msgLog[1] # msgLog[2]
  /\ msgLog[3] \in Malformed
  /\ partialEl # 0
  /\ Len(transcripts) = 1

\* the texts of the final messages of a log, in order
RECURSIVE FinalTexts(_)
FinalTexts(log) ==
  IF log = <<>> THEN <<>>
  ELSE LET rest == FinalTexts(SubSeq(log, 1, Len(log) - 1))
       IN IF IsFinalMsg(Last(log))
          THEN Append(rest, LookUp(Last(log).members, "text"))
          ELSE rest

ElementTexts(children) == [k \in 1..Len(children) |-> children[k].text]

\* C19: after every step the final elements of the display carry, in order,
\* the texts of the final messages handled so far, and the final elements
\* there before the step are still there, unaltered and first.
C19_FinalsAppendOnly ==
  [][LET old == ElementsOfClass(transcripts, "final")
         new == ElementsOfClass(transcripts', "final")
     IN /\ ElementTexts(new) = FinalTexts(msgLog')
        /\ Len(new) >= Len(old)
        /\ SubSeq(new, 1, Len(old)) = old]_vars

C19_Witness ==
  /\ Len(msgLog) = 3
  /\ IsFinalMsg(msgLog[1])
  /\ IsPartialMsg(msgLog[2])
  /\ IsFinalMsg(msgLog[3])
  /\ msgLog[1] # msgLog[3]
  /\ Len(transcripts) = 2
  /\ ElementTexts(transcripts) = FinalTexts(msgLog)

=============================================================================
